---- MODULE Spec2Model ----
(***************************************************************************)
(* s7poll: a command-line client that reads, writes and polls memory areas *)
(* of an S7 controller (src/main.go).  The module models                   *)
(*   - the codec (parseWriteData / formatData and their helpers) as        *)
(*     operators on texts, a text being a sequence of one-character        *)
(*     strings, and on byte sequences (integers 0..255);                   *)
(*   - the access engine (readArea / writeArea) as operators giving the    *)
(*     transport call a descriptor is dispatched to;                       *)
(*   - the three commands runRead, runPoll and runWrite as a state machine *)
(*     with one action per statement group, the deferred Close being part  *)
(*     of every action that leaves the function.                           *)
(***************************************************************************)
EXTENDS Integers, Sequences, FiniteSets, TLC

VARIABLES
    cmd,        \* os.Args[1]: "read", "poll", "write"; "codec" when only the codec runs
    area,       \* areaOptions: [area, db, start, amount]
    format,     \* -format, a text
    count,      \* -count (poll)
    rawValues,  \* -values (write), a text
    pc,         \* position in the running command
    session,    \* "none", "open", "closed": the plcClient's handler
    i,          \* runPoll's tick counter
    data,       \* the bytes of the last successful readArea
    out,        \* the text of the last successful formatData
    payload,    \* runWrite's encoded payload
    err,        \* the error the command returned ("" = nil)
    log,        \* what the command did to the outside world, in order
    cphase,     \* codec run: "input", "encoded", "decoded"
    cenc,       \* codec run: the result of parseWriteData
    cdec        \* codec run: the result of formatData on the encoded payload

vars == <<cmd, area, format, count, rawValues, pc, session, i, data, out,
          payload, err, log, cphase, cenc, cdec>>

(***************************************************************************)
(* Bounds of the model.                                                    *)
(***************************************************************************)
\* largest -count drawn for poll
MaxCount == 3
\* ticks after which an unbounded poll is no longer followed
MaxTicks == 4
\* largest -size drawn
MaxAmount == 4
\* longest -values text drawn for the hex codec run
MaxHexLen == 4
\* most comma-separated tokens drawn for the integer codec run
MaxTokens == 2
\* integers drawn within this distance of 0 and of each range boundary
Near == 1

(***************************************************************************)
(* Texts.                                                                  *)
(***************************************************************************)
LowerChars == <<"a","b","c","d","e","f","g","h","i","j","k","l","m",
                "n","o","p","q","r","s","t","u","v","w","x","y","z">>

UpperChars == <<"A","B","C","D","E","F","G","H","I","J","K","L","M",
                "N","O","P","Q","R","S","T","U","V","W","X","Y","Z">>

\* the digits of strconv and fmt, by value: HexChars[v + 1] is the digit of value v
HexChars == <<"0","1","2","3","4","5","6","7","8","9","a","b","c","d","e","f">>

ToUpperChar(c) ==
    IF \E k \in 1..26 : LowerChars[k] = c
    THEN UpperChars[CHOOSE k \in 1..26 : LowerChars[k] = c]
    ELSE c

ToLowerChar(c) ==
    IF \E k \in 1..26 : UpperChars[k] = c
    THEN LowerChars[CHOOSE k \in 1..26 : UpperChars[k] = c]
    ELSE c

\* strings.ToUpper
ToUpper(s) ==
    [k \in 1..Len(s) |-> ToUpperChar(s[k])]

\* strings.ToLower
ToLower(s) ==
    [k \in 1..Len(s) |-> ToLowerChar(s[k])]

\* unicode.IsSpace, on the characters the model draws
IsSpace(c) ==
    c \in {" ", "\t"}

RECURSIVE RemoveChar(_, _)
\* strings.ReplaceAll(s, c, "") for a one-character c
RemoveChar(s, c) ==
    IF s = <<>> THEN <<>>
    ELSE IF Head(s) = c THEN RemoveChar(Tail(s), c)
    ELSE <<Head(s)>> \o RemoveChar(Tail(s), c)

RECURSIVE RemovePair(_, _, _)
\* strings.ReplaceAll(s, ab, ""): one pass, left to right, matches do not overlap
RemovePair(s, a, b) ==
    IF Len(s) < 2 THEN s
    ELSE IF s[1] = a /\ s[2] = b THEN RemovePair(SubSeq(s, 3, Len(s)), a, b)
    ELSE <<Head(s)>> \o RemovePair(Tail(s), a, b)

RECURSIVE TrimLeft(_)
TrimLeft(s) ==
    IF s # <<>> /\ IsSpace(Head(s)) THEN TrimLeft(Tail(s)) ELSE s

RECURSIVE TrimRight(_)
TrimRight(s) ==
    IF s # <<>> /\ IsSpace(s[Len(s)]) THEN TrimRight(SubSeq(s, 1, Len(s) - 1)) ELSE s

\* strings.TrimSpace
TrimSpace(s) ==
    TrimRight(TrimLeft(s))

RECURSIVE Split(_, _)
\* strings.Split(s, sep) for a one-character sep: always at least one item
Split(s, sep) ==
    IF \A k \in 1..Len(s) : s[k] # sep THEN <<s>>
    ELSE LET p == CHOOSE k \in 1..Len(s) : s[k] = sep /\ \A j \in 1..(k - 1) : s[j] # sep
         IN  <<SubSeq(s, 1, p - 1)>> \o Split(SubSeq(s, p + 1, Len(s)), sep)

RECURSIVE Join(_, _)
\* strings.Join
Join(items, sep) ==
    IF items = <<>> THEN <<>>
    ELSE IF Len(items) = 1 THEN items[1]
    ELSE items[1] \o sep \o Join(Tail(items), sep)

RECURSIVE Pow2(_)
Pow2(n) ==
    IF n = 0 THEN 1 ELSE 2 * Pow2(n - 1)

(***************************************************************************)
(* Results of the codec: a value or an error.  pos is the character offset *)
(* an error carries (-1: none), tok the token it names.                    *)
(***************************************************************************)
Ok(v) ==
    [ok |-> TRUE, val |-> v, err |-> "", pos |-> -1, tok |-> <<>>]

Fail(e, p, t) ==
    [ok |-> FALSE, val |-> <<>>, err |-> e, pos |-> p, tok |-> t]

(***************************************************************************)
(* Codec: hex.                                                             *)
(***************************************************************************)
IsHexDigit(c) ==
    \E k \in 1..16 : HexChars[k] = ToLowerChar(c)

IsDigitOf(c, base) ==
    \E k \in 1..base : HexChars[k] = ToLowerChar(c)

DigitVal(c) ==
    (CHOOSE k \in 1..16 : HexChars[k] = ToLowerChar(c)) - 1

\* fmt's %02X of one byte
HexByteText(v) ==
    <<ToUpperChar(HexChars[(v \div 16) + 1]), ToUpperChar(HexChars[(v % 16) + 1])>>

bytesToHex(bytes) ==
    Join([k \in 1..Len(bytes) |-> HexByteText(bytes[k])], <<" ">>)

\* The run of hex digits fmt's scanNumber accepts from the front of s.
HexRun(s) ==
    LET stop == {k \in 1..Len(s) : ~IsHexDigit(s[k])}
        n    == IF stop = {} THEN Len(s)
                ELSE (CHOOSE k \in stop : \A j \in stop : k <= j) - 1
    IN  SubSeq(s, 1, n)

RECURSIVE HexValue(_)
HexValue(s) ==
    IF s = <<>> THEN 0 ELSE 16 * HexValue(SubSeq(s, 1, Len(s) - 1)) + DigitVal(s[Len(s)])

\* fmt.Sscanf(g, "%02X", &v) with v a byte.  The verb skips leading white
\* space, demands one hex digit ("expected integer" otherwise, "unexpected
\* EOF" on no input) and then takes the hex digits that follow, at most two
\* in all; Sscanf does not look at what is left of the input after them.
ScanHexByte(g) ==
    LET rest == TrimLeft(g)
    IN  IF rest = <<>> THEN Fail("unexpected EOF", -1, g)
        ELSE IF ~IsHexDigit(rest[1]) THEN Fail("expected integer", -1, g)
        ELSE Ok(<<HexValue(HexRun(SubSeq(rest, 1, IF Len(rest) < 2 THEN Len(rest) ELSE 2)))>>)

\* line 306: the three nested strings.ReplaceAll
CleanHex(s) ==
    RemovePair(RemovePair(RemoveChar(s, " "), "0", "x"), "0", "X")

RECURSIVE ScanGroups(_, _)
\* the loop of parseHex from offset p (0-based) on
ScanGroups(clean, p) ==
    IF p >= Len(clean) THEN Ok(<<>>)
    ELSE LET g == ScanHexByte(SubSeq(clean, p + 1, p + 2))
         IN  IF ~g.ok THEN Fail("invalid hex", p, g.tok)
             ELSE LET more == ScanGroups(clean, p + 2)
                  IN  IF more.ok THEN Ok(g.val \o more.val) ELSE more

parseHex(s) ==
    LET clean == CleanHex(s)
    IN  IF Len(clean) % 2 # 0 THEN Fail("hex input length must be even", -1, clean)
        ELSE ScanGroups(clean, 0)

(***************************************************************************)
(* Codec: integers.                                                        *)
(***************************************************************************)
splitValues(raw) ==
    LET items == Split(raw, ",")
        kept  == SelectSeq([k \in 1..Len(items) |-> TrimSpace(items[k])],
                           LAMBDA it : it # <<>>)
    IN  kept

RECURSIVE ScanDigits(_, _, _, _, _, _)
\* strconv.ParseUint's digit loop.  The magnitude is kept as hi * 65536 + lo
\* so that 32-bit magnitudes stay inside TLC's integers; maxHi is
\* (2^bitSize - 1) \div 65536.  A character that is no digit of the base is
\* a syntax error, a magnitude above 2^bitSize - 1 a range error.
ScanDigits(s, k, base, maxHi, hi, lo) ==
    IF k > Len(s) THEN [err |-> "", hi |-> hi, lo |-> lo]
    ELSE IF ~IsDigitOf(s[k], base) THEN [err |-> "syntax", hi |-> 0, lo |-> 0]
    ELSE LET lo1 == lo * base + DigitVal(s[k])
             hi1 == hi * base + (lo1 \div 65536)
         IN  IF hi1 > maxHi THEN [err |-> "range", hi |-> 0, lo |-> 0]
             ELSE ScanDigits(s, k + 1, base, maxHi, hi1, lo1 % 65536)

\* strconv.ParseInt(s, 0, bitSize), for texts without "_": sign, base
\* prefix (0x, 0b, 0o, a leading 0 for octal), digits, and the signed range,
\* whose cutoff 2^(bitSize-1) is cutHi * 65536 + cutLo.
ParseInt(s, bitSize) ==
    LET signed == s # <<>> /\ s[1] \in {"+", "-"}
        neg    == s # <<>> /\ s[1] = "-"
        body   == IF signed THEN Tail(s) ELSE s
        pre    == IF Len(body) >= 3 /\ body[1] = "0" THEN ToLowerChar(body[2]) ELSE ""
        base   == IF body = <<>> \/ body[1] # "0" THEN 10
                  ELSE IF pre = "b" THEN 2
                  ELSE IF pre = "x" THEN 16
                  ELSE 8
        digits == IF body = <<>> \/ body[1] # "0" THEN body
                  ELSE IF pre \in {"b", "o", "x"} THEN SubSeq(body, 3, Len(body))
                  ELSE Tail(body)
        un     == ScanDigits(digits, 1, base, Pow2(bitSize - 16) - 1, 0, 0)
        cutHi  == IF bitSize > 16 THEN Pow2(bitSize - 17) ELSE 0
        cutLo  == IF bitSize > 16 THEN 0 ELSE Pow2(bitSize - 1)
        atCut  == un.hi = cutHi /\ un.lo = cutLo
        above  == un.hi > cutHi \/ (un.hi = cutHi /\ un.lo > cutLo)
    IN  IF body = <<>> THEN [err |-> "syntax", val |-> 0]
        ELSE IF un.err # "" THEN [err |-> un.err, val |-> 0]
        ELSE IF above \/ (atCut /\ ~neg) THEN [err |-> "range", val |-> 0]
        ELSE [err |-> "", val |-> IF neg THEN ((0 - un.hi) * 65536) - un.lo
                                   ELSE un.hi * 65536 + un.lo]

parseInt(s, size) ==
    LET r == ParseInt(s, size * 8)
    IN  IF r.err # "" THEN Fail("invalid integer", -1, s) ELSE Ok(<<r.val>>)

\* binary.BigEndian.PutUint16 / PutUint32 of uint16(val) / uint32(val):
\* the low size bytes of the two's complement of val, most significant first
PutBigEndian(val, size) ==
    [k \in 1..size |-> (val \div Pow2(8 * (size - k))) % 256]

RECURSIVE EncodeParts(_, _)
EncodeParts(parts, size) ==
    IF parts = <<>> THEN Ok(<<>>)
    ELSE LET v == parseInt(parts[1], size)
         IN  IF ~v.ok THEN v
             ELSE LET more == EncodeParts(Tail(parts), size)
                  IN  IF more.ok THEN Ok(PutBigEndian(v.val[1], size) \o more.val)
                      ELSE more

encodeInts(raw, size) ==
    EncodeParts(splitValues(raw), size)

\* SignedBigEndian reading the bytes least significant first, as
\* binary.LittleEndian would: the fault C6 has to detect.
SignedLittleEndian(b) ==
    LET n == Len(b)
        RECURSIVE Low(_)
        Low(k) == IF k >= n THEN 0 ELSE b[k] * Pow2(8 * (k - 1)) + Low(k + 1)
        top == IF b[n] >= 128 THEN b[n] - 256 ELSE b[n]
    IN  top * Pow2(8 * (n - 1)) + Low(1)

\* int64(int16(binary.BigEndian.Uint16(b))) / int64(int32(...Uint32(b)))
SignedBigEndian(b) ==
    LET RECURSIVE Low(_)
        Low(k) == IF k > Len(b) THEN 0 ELSE b[k] * Pow2(8 * (Len(b) - k)) + Low(k + 1)
        top == IF b[1] >= 128 THEN b[1] - 256 ELSE b[1]
    IN  top * Pow2(8 * (Len(b) - 1)) + Low(2)

decodeInts(bytes, size) ==
    IF Len(bytes) % size # 0 THEN Fail("size not aligned with data length", -1, <<>>)
    ELSE Ok([k \in 1..(Len(bytes) \div size) |->
                SignedBigEndian(SubSeq(bytes, (k - 1) * size + 1, k * size))])

RECURSIVE NatText(_)
\* the decimal digits of -n, for n <= 0 (so that -2^31 needs no negation)
NatText(n) ==
    IF n = 0 THEN <<>>
    ELSE LET d == (10 - (n % 10)) % 10
         IN  NatText((n + d) \div 10) \o <<HexChars[d + 1]>>

\* fmt's %d
IntText(v) ==
    IF v = 0 THEN <<"0">>
    ELSE IF v < 0 THEN <<"-">> \o NatText(v)
    ELSE NatText(0 - v)

joinInts(vals) ==
    Join([k \in 1..Len(vals) |-> IntText(vals[k])], <<",">>)

(***************************************************************************)
(* Codec: string.  A Go string and a []byte hold the same bytes; a text of *)
(* the model holds characters, so the conversions go through ASCII.  A     *)
(* byte that is no printable ASCII character and no tab becomes a          *)
(* character of its own, named by its hex digits (so is the grave accent,  *)
(* which a TLA+ string cannot hold).                                       *)
(***************************************************************************)
\* the printable ASCII characters: Printable[b - 31] is the character of byte b
Printable ==
    <<" ","!","\"","#","$","%","&","'","(",")","*","+",",","-",".","/",
      "0","1","2","3","4","5","6","7","8","9",":",";","<","=",">","?",
      "@","A","B","C","D","E","F","G","H","I","J","K","L","M","N","O",
      "P","Q","R","S","T","U","V","W","X","Y","Z","[","\\","]","^","_",
      "\\x60","a","b","c","d","e","f","g","h","i","j","k","l","m","n","o",
      "p","q","r","s","t","u","v","w","x","y","z","{","|","}","~">>

ByteChar(b) ==
    IF b >= 32 /\ b <= 126 THEN Printable[b - 31]
    ELSE IF b = 9 THEN "\t"
    ELSE "\\x" \o HexChars[(b \div 16) + 1] \o HexChars[(b % 16) + 1]

CharByte(c) ==
    CHOOSE b \in 0..255 : ByteChar(b) = c

\* string(data)
BytesToText(bytes) ==
    [k \in 1..Len(bytes) |-> ByteChar(bytes[k])]

\* []byte(raw)
TextToBytes(s) ==
    [k \in 1..Len(s) |-> CharByte(s[k])]

(***************************************************************************)
(* Codec: float32.  strconv.ParseFloat(s, 32) followed by mathToBits, and  *)
(* mathFromBits followed by fmt's %g, are given by the table of the        *)
(* binary32 values the model draws: text is both the token ParseFloat      *)
(* reads and the text %g prints for the bits.  Every other token the model *)
(* draws is one ParseFloat rejects; a bit pattern outside the table has no *)
(* text here and stops the check.                                          *)
(***************************************************************************)
FloatLiterals ==
    { [text |-> <<"0">>,      bits |-> <<0, 0, 0, 0>>],
      [text |-> <<"1">>,      bits |-> <<63, 128, 0, 0>>],
      [text |-> <<"1",".","5">>,  bits |-> <<63, 192, 0, 0>>],
      [text |-> <<"2">>,      bits |-> <<64, 0, 0, 0>>],
      [text |-> <<"2",".","2","5">>, bits |-> <<64, 16, 0, 0>>],
      [text |-> <<"4","0","0","0","0">>, bits |-> <<71, 28, 64, 0>>],
      [text |-> <<"2",".","3","8","7","9","3","9","3","e","-","3","8">>,
       bits |-> <<1, 2, 3, 4>>] }

parseFloat(s) ==
    IF \E l \in FloatLiterals : l.text = s
    THEN Ok((CHOOSE l \in FloatLiterals : l.text = s).bits)
    ELSE Fail("invalid float", -1, s)

RECURSIVE EncodeFloatParts(_)
EncodeFloatParts(parts) ==
    IF parts = <<>> THEN Ok(<<>>)
    ELSE LET v == parseFloat(parts[1])
         IN  IF ~v.ok THEN v
             ELSE LET more == EncodeFloatParts(Tail(parts))
                  IN  IF more.ok THEN Ok(v.val \o more.val) ELSE more

encodeFloats(raw) ==
    EncodeFloatParts(splitValues(raw))

\* fmt.Sprintf("%g", mathFromBits(binary.BigEndian.Uint32(b)))
FloatText(b) ==
    (CHOOSE l \in FloatLiterals : l.bits = b).text

(***************************************************************************)
(* Codec: the two dispatchers.                                             *)
(***************************************************************************)
FmtHex == <<"h","e","x">>

FmtString == <<"s","t","r","i","n","g">>

FmtStr == <<"s","t","r">>

FmtInt16 == <<"i","n","t","1","6">>

FmtInt32 == <<"i","n","t","3","2">>

FmtFloat32 == <<"f","l","o","a","t","3","2">>

FmtFloat == <<"f","l","o","a","t">>

formatData(bytes, fmt) ==
    LET f == ToLower(fmt)
    IN  IF f = FmtHex THEN Ok(bytesToHex(bytes))
        ELSE IF f \in {FmtString, FmtStr} THEN Ok(BytesToText(bytes))
        ELSE IF f \in {FmtInt16, FmtInt32}
        THEN LET vals == decodeInts(bytes, IF f = FmtInt16 THEN 2 ELSE 4)
             IN  IF ~vals.ok THEN vals ELSE Ok(joinInts(vals.val))
        ELSE IF f \in {FmtFloat32, FmtFloat}
        THEN IF Len(bytes) % 4 # 0
             THEN Fail("float32 output requires size to be a multiple of 4", -1, <<>>)
             ELSE Ok(Join([k \in 1..(Len(bytes) \div 4) |->
                              FloatText(SubSeq(bytes, 4 * k - 3, 4 * k))], <<",">>))
        ELSE Fail("unknown format", -1, fmt)

parseWriteData(fmt, raw) ==
    LET f == ToLower(fmt)
    IN  IF f = FmtHex THEN parseHex(raw)
        ELSE IF f \in {FmtString, FmtStr} THEN Ok(TextToBytes(raw))
        ELSE IF f = FmtInt16 THEN encodeInts(raw, 2)
        ELSE IF f = FmtInt32 THEN encodeInts(raw, 4)
        ELSE IF f \in {FmtFloat32, FmtFloat} THEN encodeFloats(raw)
        ELSE Fail("unknown format", -1, fmt)

(***************************************************************************)
(* Access engine.  readArea and writeArea give the one transport call the  *)
(* descriptor is dispatched to, with its arguments in the order of the     *)
(* call, or <<>> when the switch takes its default branch and calls        *)
(* nothing.  The log of a run holds each call with what it returned        *)
(* ("ok" or "error") as its last element.                                  *)
(***************************************************************************)
Returned(call, res) ==
    Append(call, res)

\* readArea with the switch on area.area itself, not on its upper case:
\* the fault C5 has to detect.
readAreaCaseSensitive(a) ==
    LET u == a.area
    IN  IF u = <<"D","B">>
        THEN <<"AGReadDB", a.db, a.start, a.amount>>
        ELSE IF u \in {<<"P","E">>, <<"I">>, <<"I","N","P","U","T">>}
        THEN <<"AGReadEB", a.start, a.amount>>
        ELSE IF u \in {<<"P","A">>, <<"Q">>, <<"O","U","T","P","U","T">>}
        THEN <<"AGReadAB", a.start, a.amount>>
        ELSE IF u \in {<<"M","K">>, <<"M">>, <<"M","E","R","K","E","R">>}
        THEN <<"AGReadMB", a.start, a.amount>>
        ELSE <<>>

readArea(a) ==
    LET u == ToUpper(a.area)
    IN  IF u = <<"D","B">>
        THEN <<"AGReadDB", a.db, a.start, a.amount>>
        ELSE IF u \in {<<"P","E">>, <<"I">>, <<"I","N","P","U","T">>}
        THEN <<"AGReadEB", a.start, a.amount>>
        ELSE IF u \in {<<"P","A">>, <<"Q">>, <<"O","U","T","P","U","T">>}
        THEN <<"AGReadAB", a.start, a.amount>>
        ELSE IF u \in {<<"M","K">>, <<"M">>, <<"M","E","R","K","E","R">>}
        THEN <<"AGReadMB", a.start, a.amount>>
        ELSE <<>>

\* writeArea passing area.amount, the descriptor's length, for len(data):
\* the fault C8 has to detect.
writeAreaDescriptorLength(a, bytes) ==
    LET u == ToUpper(a.area)
    IN  IF u = <<"D","B">>
        THEN <<"AGWriteDB", a.db, a.start, a.amount, bytes>>
        ELSE IF u \in {<<"P","E">>, <<"I">>, <<"I","N","P","U","T">>}
        THEN <<"AGWriteEB", a.start, a.amount, bytes>>
        ELSE IF u \in {<<"P","A">>, <<"Q">>, <<"O","U","T","P","U","T">>}
        THEN <<"AGWriteAB", a.start, a.amount, bytes>>
        ELSE IF u \in {<<"M","K">>, <<"M">>, <<"M","E","R","K","E","R">>}
        THEN <<"AGWriteMB", a.start, a.amount, bytes>>
        ELSE <<>>

writeArea(a, bytes) ==
    LET u == ToUpper(a.area)
    IN  IF u = <<"D","B">>
        THEN <<"AGWriteDB", a.db, a.start, Len(bytes), bytes>>
        ELSE IF u \in {<<"P","E">>, <<"I">>, <<"I","N","P","U","T">>}
        THEN <<"AGWriteEB", a.start, Len(bytes), bytes>>
        ELSE IF u \in {<<"P","A">>, <<"Q">>, <<"O","U","T","P","U","T">>}
        THEN <<"AGWriteAB", a.start, Len(bytes), bytes>>
        ELSE IF u \in {<<"M","K">>, <<"M">>, <<"M","E","R","K","E","R">>}
        THEN <<"AGWriteMB", a.start, Len(bytes), bytes>>
        ELSE <<>>

(***************************************************************************)
(* The inputs the commands are run on.                                     *)
(***************************************************************************)
AreaInputs ==
    { <<"D","B">>, <<"d","b">>, <<"D","b">>, <<"P","E">>, <<"I">>, <<"i">>,
      <<"I","N","P","U","T">>, <<"i","n","p","u","t">>, <<"P","A">>,
      <<"Q">>, <<"O","U","T","P","U","T">>, <<"M","K">>, <<"M">>,
      <<"m","e","r","k","e","r">>, <<"T","M">>, <<"c","t">>, <<>>,
      <<"D","B","X">> }

\* (-db, -start): the flags' defaults and the README's write example
BlockInputs ==
    { [db |-> 1, start |-> 0], [db |-> 3, start |-> 12] }

\* -size: a negative size makes readArea's make([]byte, n) panic
AmountInputs ==
    (-1)..MaxAmount

FormatInputs ==
    { <<"h","e","x">>, <<"s","t","r">>, <<"S","t","r","i","n","g">>,
      <<"i","n","t","1","6">>, <<"I","n","t","3","2">>,
      <<"f","l","o","a","t","3","2">>, <<"f","l","o","a","t">>,
      <<"b","i","n">> }

ValueInputs ==
    { <<>>, <<"0","1","f","f">>, <<"1","G">>, <<"1",",","2">>,
      <<"1",".","5",",","2",".","2","5">>, <<"4","0","0","0","0">>,
      <<",">> }

\* what the controller may answer to a read of n bytes
ReadBuffers(n) ==
    { [k \in 1..n |-> p[((k - 1) % 4) + 1]] : p \in {<<1, 2, 3, 4>>, <<63, 192, 0, 0>>} }

(***************************************************************************)
(* Leaving a command.  A return that comes before `defer plc.Close()` runs *)
(* nothing more; a return or a panic that comes after it runs the deferred *)
(* plcClient.Close, which calls handler.Close on the non-nil handler.      *)
(***************************************************************************)
ReturnBeforeDefer(e, events) ==
    /\ pc' = "done"
    /\ err' = e
    /\ log' = log \o events
    /\ UNCHANGED session

\* ReturnAfterDefer as it would be without the `defer plc.Close()` line:
\* the fault C1 has to detect.
ReturnWithoutClose(e, events) ==
    /\ pc' = "done"
    /\ err' = e
    /\ log' = log \o events
    /\ UNCHANGED session

ReturnAfterDefer(e, events) ==
    /\ pc' = "done"
    /\ err' = e
    /\ log' = log \o events \o << <<"Close">> >>
    /\ session' = "closed"

\* fs.Parse(args): the flags are the inputs drawn in Init, or do not parse
ParseFlags(next) ==
    /\ pc = "parse"
    /\ \E parsed \in BOOLEAN :
          IF parsed
          THEN pc' = next /\ UNCHANGED <<err, log>>
          ELSE ReturnBeforeDefer("flag: parse error", <<>>)
    /\ UNCHANGED <<cmd, area, format, count, rawValues, session, i, data, out,
                   payload, cphase, cenc, cdec>>

\* plc, err := connect(conn); if err != nil { return err }; defer plc.Close()
Connect(next) ==
    /\ pc = "connect"
    /\ \E connected \in BOOLEAN :
          IF connected
          THEN /\ session' = "open"
               /\ log' = Append(log, <<"Connect", "ok">>)
               /\ pc' = next
               /\ UNCHANGED err
          ELSE ReturnBeforeDefer("connect failed", << <<"Connect", "error">> >>)
    /\ UNCHANGED <<cmd, area, format, count, rawValues, i, data, out,
                   payload, cphase, cenc, cdec>>

\* data, err := readArea(plc.Client, area); if err != nil { return err }
ReadArea(next) ==
    /\ pc = "readArea"
    /\ IF area.amount < 0
       THEN ReturnAfterDefer("panic: makeslice: len out of range", <<>>)
            /\ UNCHANGED data
       ELSE IF readArea(area) = <<>>
       THEN ReturnAfterDefer("area not supported", <<>>) /\ UNCHANGED data
       ELSE \/ \E buf \in ReadBuffers(area.amount) :
                  /\ data' = buf
                  /\ log' = Append(log, Returned(readArea(area), "ok"))
                  /\ pc' = next
                  /\ UNCHANGED <<err, session>>
            \/ ReturnAfterDefer("transport error", <<Returned(readArea(area), "error")>>)
               /\ UNCHANGED data
    /\ UNCHANGED <<cmd, area, format, count, rawValues, i, out, payload,
                   cphase, cenc, cdec>>

(***************************************************************************)
(* runRead                                                                 *)
(***************************************************************************)
RunRead_Parse ==
    cmd = "read" /\ ParseFlags("connect")

RunRead_Connect ==
    cmd = "read" /\ Connect("readArea")

RunRead_ReadArea ==
    cmd = "read" /\ ReadArea("format")

\* out, err := formatData(data, *format); ...; fmt.Println(out); return nil
RunRead_Format ==
    /\ cmd = "read"
    /\ pc = "format"
    /\ LET r == formatData(data, format)
       IN  IF r.ok
           THEN out' = r.val /\ ReturnAfterDefer("", << <<"Println">> >>)
           ELSE ReturnAfterDefer(r.err, <<>>) /\ UNCHANGED out
    /\ UNCHANGED <<cmd, area, format, count, rawValues, i, data, payload,
                   cphase, cenc, cdec>>

(***************************************************************************)
(* runPoll                                                                 *)
(***************************************************************************)
RunPoll_Parse ==
    cmd = "poll" /\ ParseFlags("connect")

RunPoll_Connect ==
    cmd = "poll" /\ Connect("readArea")

\* RunPoll_ReadArea as a loop that skips a tick the transport fails and
\* goes on to the sleep: the fault C3 has to detect.
RunPoll_ReadAreaSkipsFailedTick ==
    /\ cmd = "poll"
    /\ i < MaxTicks
    /\ pc = "readArea"
    /\ IF area.amount < 0
       THEN ReturnAfterDefer("panic: makeslice: len out of range", <<>>)
            /\ UNCHANGED data
       ELSE IF readArea(area) = <<>>
       THEN ReturnAfterDefer("area not supported", <<>>) /\ UNCHANGED data
       ELSE \/ \E buf \in ReadBuffers(area.amount) :
                  /\ data' = buf
                  /\ log' = Append(log, Returned(readArea(area), "ok"))
                  /\ pc' = "format"
                  /\ UNCHANGED <<err, session>>
            \/ /\ log' = Append(log, Returned(readArea(area), "error"))
               /\ pc' = "sleep"
               /\ UNCHANGED <<data, err, session>>
    /\ UNCHANGED <<cmd, area, format, count, rawValues, i, out, payload,
                   cphase, cenc, cdec>>

\* the top of the loop; a poll is followed for MaxTicks ticks
RunPoll_ReadArea ==
    cmd = "poll" /\ i < MaxTicks /\ ReadArea("format")

\* RunPoll_Format with the test `i > *count` for `i >= *count`: the fault
\* C2 has to detect.
RunPoll_FormatOffByOne ==
    /\ cmd = "poll"
    /\ pc = "format"
    /\ LET r == formatData(data, format)
       IN  IF ~r.ok
           THEN ReturnAfterDefer(r.err, <<>>) /\ UNCHANGED <<out, i>>
           ELSE /\ out' = r.val
                /\ i' = i + 1
                /\ IF count > 0 /\ i + 1 > count
                   THEN ReturnAfterDefer("", << <<"Printf">> >>)
                   ELSE /\ log' = Append(log, <<"Printf">>)
                        /\ pc' = "sleep"
                        /\ UNCHANGED <<err, session>>
    /\ UNCHANGED <<cmd, area, format, count, rawValues, data, payload,
                   cphase, cenc, cdec>>

\* RunPoll_Format with the test `i >= *count` alone, without `*count > 0`:
\* the fault C9 has to detect.
RunPoll_FormatNoZeroTest ==
    /\ cmd = "poll"
    /\ pc = "format"
    /\ LET r == formatData(data, format)
       IN  IF ~r.ok
           THEN ReturnAfterDefer(r.err, <<>>) /\ UNCHANGED <<out, i>>
           ELSE /\ out' = r.val
                /\ i' = i + 1
                /\ IF i + 1 >= count
                   THEN ReturnAfterDefer("", << <<"Printf">> >>)
                   ELSE /\ log' = Append(log, <<"Printf">>)
                        /\ pc' = "sleep"
                        /\ UNCHANGED <<err, session>>
    /\ UNCHANGED <<cmd, area, format, count, rawValues, data, payload,
                   cphase, cenc, cdec>>

\* formatData, Printf, i++, and the test of -count that ends the loop
RunPoll_Format ==
    /\ cmd = "poll"
    /\ pc = "format"
    /\ LET r == formatData(data, format)
       IN  IF ~r.ok
           THEN ReturnAfterDefer(r.err, <<>>) /\ UNCHANGED <<out, i>>
           ELSE /\ out' = r.val
                /\ i' = i + 1
                /\ IF count > 0 /\ i + 1 >= count
                   THEN ReturnAfterDefer("", << <<"Printf">> >>)
                   ELSE /\ log' = Append(log, <<"Printf">>)
                        /\ pc' = "sleep"
                        /\ UNCHANGED <<err, session>>
    /\ UNCHANGED <<cmd, area, format, count, rawValues, data, payload,
                   cphase, cenc, cdec>>

\* time.Sleep(*interval), then the next iteration
RunPoll_Sleep ==
    /\ cmd = "poll"
    /\ pc = "sleep"
    /\ log' = Append(log, <<"Sleep">>)
    /\ pc' = "readArea"
    /\ UNCHANGED <<cmd, area, format, count, rawValues, session, i, data, out,
                   payload, err, cphase, cenc, cdec>>

(***************************************************************************)
(* runWrite                                                                *)
(***************************************************************************)
RunWrite_Parse ==
    cmd = "write" /\ ParseFlags("values")

\* RunWrite_Encode in a runWrite that connects (and defers the Close)
\* before it looks at -values: the fault C10 has to detect.
RunWrite_EncodeAfterConnect ==
    /\ cmd = "write"
    /\ pc = "values"
    /\ \E connected \in BOOLEAN :
          IF ~connected
          THEN ReturnBeforeDefer("connect failed", << <<"Connect", "error">> >>)
               /\ UNCHANGED payload
          ELSE IF rawValues = <<>>
          THEN /\ pc' = "done"
               /\ err' = "values is required"
               /\ log' = log \o << <<"Connect", "ok">>, <<"Close">> >>
               /\ session' = "closed"
               /\ UNCHANGED payload
          ELSE LET r == parseWriteData(format, rawValues)
               IN  IF ~r.ok
                   THEN /\ pc' = "done"
                        /\ err' = r.err
                        /\ log' = log \o << <<"Connect", "ok">>, <<"Close">> >>
                        /\ session' = "closed"
                        /\ UNCHANGED payload
                   ELSE /\ payload' = r.val
                        /\ pc' = "writeArea"
                        /\ log' = Append(log, <<"Connect", "ok">>)
                        /\ session' = "open"
                        /\ UNCHANGED err
    /\ UNCHANGED <<cmd, area, format, count, rawValues, i, data, out,
                   cphase, cenc, cdec>>

\* the test of *rawValues and parseWriteData, both before connect
RunWrite_Encode ==
    /\ cmd = "write"
    /\ pc = "values"
    /\ IF rawValues = <<>>
       THEN ReturnBeforeDefer("values is required", <<>>) /\ UNCHANGED payload
       ELSE LET r == parseWriteData(format, rawValues)
            IN  IF ~r.ok
                THEN ReturnBeforeDefer(r.err, <<>>) /\ UNCHANGED payload
                ELSE /\ payload' = r.val
                     /\ pc' = "connect"
                     /\ UNCHANGED <<err, log, session>>
    /\ UNCHANGED <<cmd, area, format, count, rawValues, i, data, out,
                   cphase, cenc, cdec>>

RunWrite_Connect ==
    cmd = "write" /\ Connect("writeArea")

\* return writeArea(plc.Client, area, payload)
RunWrite_WriteArea ==
    /\ cmd = "write"
    /\ pc = "writeArea"
    /\ IF writeArea(area, payload) = <<>>
       THEN ReturnAfterDefer("area not supported", <<>>)
       ELSE \E written \in BOOLEAN :
               ReturnAfterDefer(IF written THEN "" ELSE "transport error",
                                <<Returned(writeArea(area, payload),
                                           IF written THEN "ok" ELSE "error")>>)
    /\ UNCHANGED <<cmd, area, format, count, rawValues, i, data, out, payload,
                   cphase, cenc, cdec>>

\* The process is interrupted from outside (a signal): it ends where it is,
\* and no deferred call runs.
Interrupt ==
    /\ cmd \in {"read", "poll", "write"}
    /\ pc \notin {"done", "killed"}
    /\ pc' = "killed"
    /\ UNCHANGED <<cmd, area, format, count, rawValues, session, i, data, out,
                   payload, err, log, cphase, cenc, cdec>>

Init ==
    /\ cmd \in {"read", "poll", "write"}
    /\ \E b \in BlockInputs, n \in AreaInputs, a \in AmountInputs :
          area = [area |-> n, db |-> b.db, start |-> b.start, amount |-> a]
    /\ format \in FormatInputs
    /\ count \in (IF cmd = "poll" THEN 0..MaxCount ELSE {0})
    /\ rawValues \in (IF cmd = "write" THEN ValueInputs ELSE {<<>>})
    /\ pc = "parse"
    /\ session = "none"
    /\ i = 0
    /\ data = <<>>
    /\ out = <<>>
    /\ payload = <<>>
    /\ err = ""
    /\ log = <<>>
    /\ cphase = "off"
    /\ cenc = Ok(<<>>)
    /\ cdec = Ok(<<>>)

Next ==
    \/ RunRead_Parse
    \/ RunRead_Connect
    \/ RunRead_ReadArea
    \/ RunRead_Format
    \/ RunPoll_Parse
    \/ RunPoll_Connect
    \/ RunPoll_ReadArea
    \/ RunPoll_Format
    \/ RunPoll_Sleep
    \/ RunWrite_Parse
    \/ RunWrite_Encode
    \/ RunWrite_Connect
    \/ RunWrite_WriteArea
    \/ Interrupt

Spec ==
    Init /\ [][Next]_vars

(***************************************************************************)
(* The codec on its own: a -format and a -values text are drawn, encoded   *)
(* by parseWriteData as runWrite does, and the payload is decoded by       *)
(* formatData as runRead does with the bytes it reads back.                *)
(***************************************************************************)
\* two hex digits, a character that is no hex digit, the letters of the
\* prefixes 0x and 0X, space and tab
HexAlphabet ==
    {"0", "F", "G", "x", "X", " ", "\t"}

HexInputs ==
    UNION { [1..n -> HexAlphabet] : n \in 0..MaxHexLen }

\* integers around 0 and around the ends of the 16- and 32-bit ranges
IntSamples ==
    UNION { (c - Near)..(c + Near) : c \in {0, 32767, -32768, 65535} }
      \cup { 2147483647 - d : d \in 0..Near }
      \cup { (-2147483647 - 1) + d : d \in 0..Near }

\* decimal tokens: the samples as %d prints them, and magnitudes beyond 32 bits
IntTokens ==
    { IntText(v) : v \in IntSamples }
      \cup { <<"2","1","4","7","4","8","3","6","4","8">>,
             <<"-","2","1","4","7","4","8","3","6","4","9">>,
             <<"4","2","9","4","9","6","7","2","9","6">>,
             <<"9","9","9","9","9","9","9","9","9","9","9">> }

IntInputs ==
    { Join(ts, <<",">>) : ts \in UNION { [1..n -> IntTokens] : n \in 1..MaxTokens } }

InitCodec ==
    /\ cmd = "codec"
    /\ area = [area |-> <<>>, db |-> 0, start |-> 0, amount |-> 0]
    /\ \/ format = FmtHex /\ rawValues \in HexInputs
       \/ format \in {FmtInt16, FmtInt32} /\ rawValues \in IntInputs
    /\ count = 0
    /\ pc = "done"
    /\ session = "none"
    /\ i = 0
    /\ data = <<>>
    /\ out = <<>>
    /\ payload = <<>>
    /\ err = ""
    /\ log = <<>>
    /\ cphase = "input"
    /\ cenc = Ok(<<>>)
    /\ cdec = Ok(<<>>)

Codec_Encode ==
    /\ cphase = "input"
    /\ cenc' = parseWriteData(format, rawValues)
    /\ cphase' = "encoded"
    /\ UNCHANGED <<cmd, area, format, count, rawValues, pc, session, i, data,
                   out, payload, err, log, cdec>>

Codec_Decode ==
    /\ cphase = "encoded"
    /\ cenc.ok
    /\ cdec' = formatData(cenc.val, format)
    /\ cphase' = "decoded"
    /\ UNCHANGED <<cmd, area, format, count, rawValues, pc, session, i, data,
                   out, payload, err, log, cenc>>

NextCodec ==
    \/ Codec_Encode
    \/ Codec_Decode

SpecCodec ==
    InitCodec /\ [][NextCodec]_vars

(***************************************************************************)
(* Reading the log.                                                        *)
(***************************************************************************)
IsReadCall(e) ==
    e[1] \in {"AGReadDB", "AGReadEB", "AGReadAB", "AGReadMB"}

IsWriteCall(e) ==
    e[1] \in {"AGWriteDB", "AGWriteEB", "AGWriteAB", "AGWriteMB"}

IsAreaCall(e) ==
    IsReadCall(e) \/ IsWriteCall(e)

\* a logged call without what it returned
CallOf(e) ==
    SubSeq(e, 1, Len(e) - 1)

ResultOf(e) ==
    e[Len(e)]

IsConnect(e) ==
    e[1] = "Connect"

IsConnected(e) ==
    e[1] = "Connect" /\ e[2] = "ok"

IsClose(e) ==
    e[1] = "Close"

IsEmit(e) ==
    e[1] \in {"Println", "Printf"}

IsSleep(e) ==
    e[1] = "Sleep"

IsOkRead(e) ==
    IsReadCall(e) /\ ResultOf(e) = "ok"

IsFailedRead(e) ==
    IsReadCall(e) /\ ResultOf(e) = "error"

\* where in the log the entries of each sort stand
AreaCallPlaces ==
    {k \in 1..Len(log) : IsAreaCall(log[k])}

ClosePlaces ==
    {k \in 1..Len(log) : IsClose(log[k])}

ConnectPlaces ==
    {k \in 1..Len(log) : IsConnect(log[k])}

ConnectedPlaces ==
    {k \in 1..Len(log) : IsConnected(log[k])}

EmitPlaces ==
    {k \in 1..Len(log) : IsEmit(log[k])}

FailedReadPlaces ==
    {k \in 1..Len(log) : IsFailedRead(log[k])}

OkReadPlaces ==
    {k \in 1..Len(log) : IsOkRead(log[k])}

SleepPlaces ==
    {k \in 1..Len(log) : IsSleep(log[k])}

WriteCallPlaces ==
    {k \in 1..Len(log) : IsWriteCall(log[k])}

Running ==
    cmd \in {"read", "poll", "write"}

(***************************************************************************)
(* C1.  In every command the session is acquired at most once, before the  *)
(* first area call, and every way the command finishes leaves it released  *)
(* exactly once if it was acquired: no finished command holds an open      *)
(* session, none closes twice, and Close is the last thing a command that  *)
(* connected does.                                                         *)
(***************************************************************************)
C1_SessionScoped ==
    Running =>
       /\ Cardinality(ConnectPlaces) <= 1
       /\ Cardinality(ClosePlaces) <= 1
       /\ \A k \in AreaCallPlaces :
             /\ \E j \in 1..(k - 1) : IsConnected(log[j])
             /\ \A j \in 1..(k - 1) : ~IsClose(log[j])
       /\ (session = "open") = (ConnectedPlaces # {} /\ ClosePlaces = {})
       /\ pc = "done" =>
             /\ session # "open"
             /\ Cardinality(ClosePlaces) = Cardinality(ConnectedPlaces)
             /\ ConnectedPlaces # {} => IsClose(log[Len(log)])

\* a read whose bytes do not decode: the command has ended, closed once
C1_Witness ==
    /\ cmd = "read"
    /\ pc = "done"
    /\ err = "size not aligned with data length"
    /\ session = "closed"
    /\ Len(log) = 3
    /\ IsConnected(log[1]) /\ IsOkRead(log[2]) /\ IsClose(log[3])

(***************************************************************************)
(* C2.  A poll with -count N > 0 never starts more than N ticks; when the  *)
(* N-th tick has succeeded the command has returned nil, and what it did   *)
(* is Connect, then N times read and print with one Sleep between two      *)
(* consecutive ticks (N - 1 in all), then Close: nothing follows the N-th  *)
(* print but the Close.                                                    *)
(***************************************************************************)
C2_PollCountCycles ==
    (cmd = "poll" /\ count > 0) =>
       /\ i <= count
       /\ Cardinality(EmitPlaces) = i
       /\ i = count => (pc = "done" /\ err = "")
       /\ (pc = "done" /\ err = "") =>
             /\ i = count
             /\ Len(log) = 3 * count + 1
             /\ IsConnected(log[1])
             /\ \A t \in 1..count :
                   /\ IsOkRead(log[3 * t - 1])
                   /\ IsEmit(log[3 * t])
                   /\ IF t < count THEN IsSleep(log[3 * t + 1])
                                   ELSE IsClose(log[3 * t + 1])
             /\ Cardinality(SleepPlaces) = count - 1

\* -count 3: three ticks done, the command has returned nil
C2_Witness ==
    /\ cmd = "poll"
    /\ count = 3
    /\ pc = "done"
    /\ err = ""
    /\ i = 3
    /\ Cardinality(SleepPlaces) = 2

(***************************************************************************)
(* C3.  In a poll a failing tick is the last one.  A read the transport    *)
(* fails is followed by the Close alone, and the command has returned the  *)
(* transport's error; a read that succeeded is either printed at once or   *)
(* (its bytes do not decode) followed by the Close alone, the command      *)
(* having returned the decode error.  In both cases every tick before the  *)
(* failing one has been printed: the prints are as many as the ticks       *)
(* completed.  A command that has returned does nothing more.              *)
(***************************************************************************)
C3_PollFailingTickTerminal ==
    cmd = "poll" =>
       /\ Cardinality(EmitPlaces) = i
       /\ \A k \in FailedReadPlaces :
             /\ k = Len(log) - 1
             /\ IsClose(log[Len(log)])
             /\ pc = "done"
             /\ err = "transport error"
             /\ Cardinality(OkReadPlaces) = i
       /\ \A k \in OkReadPlaces :
             \/ k = Len(log) /\ pc \in {"format", "killed"}
             \/ k < Len(log) /\ IsEmit(log[k + 1])
             \/ /\ k = Len(log) - 1
                /\ IsClose(log[Len(log)])
                /\ pc = "done"
                /\ ~formatData(data, format).ok
                /\ err = formatData(data, format).err
                /\ Cardinality(OkReadPlaces) = i + 1
       /\ pc = "done" => ~ENABLED Next

\* two ticks printed, the third read fails: the command ends there
C3_Witness ==
    /\ cmd = "poll"
    /\ pc = "done"
    /\ err = "transport error"
    /\ i = 2
    /\ Cardinality(EmitPlaces) = 2
    /\ IsFailedRead(log[Len(log) - 1])

(***************************************************************************)
(* C4.  An unsupported area is reported before any call into the           *)
(* transport: when a command returns "area not supported" it has made no   *)
(* Connect, no read and no write.                                          *)
(***************************************************************************)
C4_UnsupportedAreaBeforeTransport ==
    (Running /\ err = "area not supported") =>
       /\ ConnectPlaces = {}
       /\ AreaCallPlaces = {}

(* The alias table of the area names and the call it asks for. *)
EqFold(a, b) ==
    /\ Len(a) = Len(b)
    /\ \A k \in 1..Len(a) :
          \/ a[k] = b[k]
          \/ \E j \in 1..26 : {a[k], b[k]} = {LowerChars[j], UpperChars[j]}

AliasTable ==
    { [kind |-> "DataBlock", suffix |-> "DB",
       names |-> {<<"D","B">>}],
      [kind |-> "Input", suffix |-> "EB",
       names |-> {<<"P","E">>, <<"I">>, <<"I","N","P","U","T">>}],
      [kind |-> "Output", suffix |-> "AB",
       names |-> {<<"P","A">>, <<"Q">>, <<"O","U","T","P","U","T">>}],
      [kind |-> "Marker", suffix |-> "MB",
       names |-> {<<"M","K">>, <<"M">>, <<"M","E","R","K","E","R">>}] }

Resolves(name) ==
    \E row \in AliasTable : \E n \in row.names : EqFold(name, n)

RowOf(name) ==
    CHOOSE row \in AliasTable : \E n \in row.names : EqFold(name, n)

\* the call the table asks for: op is "AGRead" or "AGWrite", rest the
\* arguments that follow the start offset
TableCall(op, rest) ==
    IF ~Resolves(area.area) THEN <<>>
    ELSE LET row == RowOf(area.area)
         IN  <<op \o row.suffix>>
               \o (IF row.kind = "DataBlock" THEN <<area.db>> ELSE <<>>)
               \o <<area.start>> \o rest

MaxDigits(size, negative) ==
    IF size = 2
    THEN (IF negative THEN <<"3","2","7","6","8">>
                      ELSE <<"3","2","7","6","7">>)
    ELSE (IF negative THEN <<"2","1","4","7","4","8","3","6","4","8">>
                      ELSE <<"2","1","4","7","4","8","3","6","4","7">>)

\* a <= b for two runs of decimal digits without leading zeros
DigitsLeq(a, b) ==
    \/ Len(a) < Len(b)
    \/ /\ Len(a) = Len(b)
       /\ \/ a = b
          \/ \E k \in 1..Len(a) :
                /\ \A j \in 1..(k - 1) : a[j] = b[j]
                /\ DigitVal(a[k]) < DigitVal(b[k])

\* the token, a decimal as %d prints it, is inside the signed range
InRange(tok, size) ==
    IF tok[1] = "-" THEN DigitsLeq(Tail(tok), MaxDigits(size, TRUE))
    ELSE DigitsLeq(tok, MaxDigits(size, FALSE))

(***************************************************************************)
(* C6.  Integers through Int16/Int32.  A -values text of decimal tokens,   *)
(* each inside the signed range of the width, encodes to width bytes per   *)
(* token, and decoding those bytes gives the same text back.  A text with  *)
(* a token below -2^(w-1) or above 2^(w-1)-1 is rejected as an invalid     *)
(* integer: no bytes come out of it.                                       *)
(***************************************************************************)
C6_IntRoundTrip ==
    (cmd = "codec" /\ format \in {FmtInt16, FmtInt32} /\ cphase # "input") =>
       LET size == IF format = FmtInt16 THEN 2 ELSE 4
           toks == Split(rawValues, ",")
       IN  IF \A k \in 1..Len(toks) : InRange(toks[k], size)
           THEN /\ cenc.ok
                /\ Len(cenc.val) = size * Len(toks)
                /\ cphase = "decoded" => (cdec.ok /\ cdec.val = rawValues)
           ELSE /\ ~cenc.ok
                /\ cenc.err = "invalid integer"
                /\ cenc.val = <<>>
                /\ ~InRange(cenc.tok, size)

\* the two ends of the 32-bit range, encoded and decoded back
C6_Witness ==
    /\ cmd = "codec"
    /\ format = FmtInt32
    /\ cphase = "decoded"
    /\ rawValues = <<"-","2","1","4","7","4","8","3","6","4","8",",","2","1","4","7","4","8","3","6","4","7">>
    /\ cenc.val = <<128, 0, 0, 0, 127, 255, 255, 255>>
    /\ cdec.val = rawValues

(* The offsets of the groups of a stripped hex text that are not two hex digits. *)
BadGroups(clean) ==
    {p \in 0..(Len(clean) - 1) :
        p % 2 = 0 /\ ~(IsHexDigit(clean[p + 1]) /\ IsHexDigit(clean[p + 2]))}

(***************************************************************************)
(* C7.  Hex encode accepts a two-character group only if both characters   *)
(* are hex digits: when the stripped text has even length and a group      *)
(* that is not two hex digits, parseHex fails with "invalid hex" at the    *)
(* offset of the first such group, and gives no bytes.                     *)
(***************************************************************************)
C7_InvalidGroupRejected ==
    (cmd = "codec" /\ format = FmtHex /\ cphase # "input") =>
       LET clean == CleanHex(rawValues)
       IN  (Len(clean) % 2 = 0 /\ BadGroups(clean) # {}) =>
              /\ ~cenc.ok
              /\ cenc.err = "invalid hex"
              /\ cenc.val = <<>>
              /\ cenc.pos \in BadGroups(clean)
              /\ \A p \in BadGroups(clean) : cenc.pos <= p

C9_CountZeroUnbounded ==
    (cmd = "poll" /\ count = 0) =>
       /\ pc = "done" => err # ""
       /\ \A k \in EmitPlaces :
             \/ k = Len(log) /\ pc \in {"sleep", "killed"}
             \/ /\ k < Len(log)
                /\ IsSleep(log[k + 1])
                /\ \/ k + 1 = Len(log) /\ pc \in {"readArea", "killed"}
                   \/ k + 1 < Len(log) /\ IsReadCall(log[k + 2])

\* three ticks printed and the poll is about to read again
C9_Witness ==
    /\ cmd = "poll"
    /\ count = 0
    /\ i = 3
    /\ pc = "readArea"
    /\ Cardinality(EmitPlaces) = 3

(***************************************************************************)
(* C10.  The write command encodes before it connects.  When -values is    *)
(* empty or does not encode, the command makes no Connect, no write and no *)
(* Close, and returns that error; a write is issued only after the payload *)
(* was encoded and Connect succeeded.                                      *)
(***************************************************************************)
C10_WriteEncodesBeforeConnect ==
    cmd = "write" =>
       LET r == parseWriteData(format, rawValues)
       IN  /\ (rawValues = <<>> \/ ~r.ok) =>
                 /\ log = <<>>
                 /\ session = "none"
                 /\ pc \notin {"connect", "writeArea"}
                 /\ (pc = "done" /\ err # "flag: parse error") =>
                       err = (IF rawValues = <<>> THEN "values is required" ELSE r.err)
           /\ \A k \in WriteCallPlaces :
                 /\ rawValues # <<>>
                 /\ r.ok
                 /\ \E j \in 1..(k - 1) : IsConnected(log[j])

\* "1G" as int16 does not encode: the command ends without a Connect
C10_Witness ==
    /\ cmd = "write"
    /\ pc = "done"
    /\ rawValues = <<"1","G">>
    /\ format = FmtInt16
    /\ err = "invalid integer"
    /\ log = <<>>

====
